---- MODULE Spec2Model ----
(***************************************************************************)
(* Model of the Azure OpenAI cost estimator (src/main.py).                 *)
(*                                                                         *)
(* The program is a Streamlit script: every widget interaction reruns      *)
(* main(), which reads the sidebar, builds the scenario table with         *)
(* generate_scenarios() and recomputes the Custom detail with              *)
(* calculate_costs().  calculate_costs() stores its result in              *)
(* st.session_state['calculated_metrics'], which outlives a rerun.         *)
(*                                                                         *)
(* Numbers.  Token counts and avg_questions_per_convo are Python ints      *)
(* (TLA+ integers).  Rates, visitors and money are Python floats: binary   *)
(* floating point, every operation rounded to nearest, ties to even.       *)
(* A float is modelled as [sign, m, e] with value sign * m * 2^e and a     *)
(* mantissa of Precision bits (53 in CPython, reduced here); exponents     *)
(* are unbounded, as the magnitudes the program handles (1e-9 .. 1e12)     *)
(* are far from overflow and underflow.                                    *)
(***************************************************************************)
EXTENDS Integers, Sequences, FiniteSets, TLC

\* Mantissa width of the modelled floats.
Precision == 8

\* Largest avg_questions_per_convo passed to calculate_costs directly.
MaxQuestions == 3

(***************************************************************************)
(* Floating point                                                          *)
(***************************************************************************)
\* int.bit_length() of 0 <= n < 2^31, by halving the width w = 16, 8, .., 1.
RECURSIVE BitLenFrom(_, _)
BitLenFrom(n, w) ==
    IF w = 0 THEN n
    ELSE IF n >= 2^w THEN w + BitLenFrom(n \div 2^w, w \div 2)
                     ELSE BitLenFrom(n, w \div 2)

BitLen(n) == BitLenFrom(n, 16)

Abs(i) == IF i < 0 THEN -i ELSE i

FZero(sign) == [sign |-> sign, m |-> 0, e |-> 0]

\* The float nearest to sign * q * 2^e (q > 0); sticky says that the exact
\* value lies strictly above q * 2^e and below (q + 1) * 2^e.
Round(q, sticky, e, sign) ==
    LET b == BitLen(q) IN
    IF b <= Precision
    THEN [sign |-> sign, m |-> q * 2^(Precision - b), e |-> e - (Precision - b)]
    ELSE LET s    == b - Precision
             t    == 2^s
             m0   == q \div t
             r    == q % t
             half == t \div 2
             up   == r > half \/ (r = half /\ (sticky \/ m0 % 2 = 1))
             m1   == IF up THEN m0 + 1 ELSE m0
         IN  IF m1 = 2^Precision
             THEN [sign |-> sign, m |-> 2^(Precision - 1), e |-> e + s + 1]
             ELSE [sign |-> sign, m |-> m1, e |-> e + s]

\* Long division: j more quotient bits of r / d (r < d), appended to q.
RECURSIVE DivBits(_, _, _, _)
DivBits(q, r, d, j) ==
    IF j = 0 THEN [q |-> q, r |-> r]
    ELSE IF 2 * r >= d THEN DivBits(2 * q + 1, 2 * r - d, d, j - 1)
                       ELSE DivBits(2 * q, 2 * r, d, j - 1)

\* The float nearest to sign * (n / d) * 2^e, for 0 < n, d < 2^30.
RoundRatio(n, d, e, sign) ==
    LET shift == BitLen(d) - BitLen(n)
        n1    == IF shift > 0 THEN n * 2^shift ELSE n
        d1    == IF shift < 0 THEN d * 2^(-shift) ELSE d
        q0    == IF n1 >= d1 THEN 1 ELSE 0
        res   == DivBits(q0, n1 - q0 * d1, d1, Precision + 2)
    IN  Round(res.q, res.r # 0, e - shift - (Precision + 2), sign)

\* float(i): an int converted for a mixed int/float operation.
FromInt(i) == IF i = 0 THEN FZero(1) ELSE Round(Abs(i), FALSE, 0, IF i < 0 THEN -1 ELSE 1)

\* A decimal literal of the source text with the given digits and number of
\* decimal places: 0.02 is Lit(2, 2), 2.2 is Lit(22, 1), 0.000001866 is
\* Lit(1866, 9).  digits / 10^places = (digits / 5^places) * 2^(-places).
Lit(digits, places) ==
    IF digits = 0 THEN FZero(1)
    ELSE RoundRatio(Abs(digits), 5^places, -places, IF digits < 0 THEN -1 ELSE 1)

\* a * b
FMul(a, b) ==
    IF a.m = 0 \/ b.m = 0 THEN FZero(a.sign * b.sign)
    ELSE Round(a.m * b.m, FALSE, a.e + b.e, a.sign * b.sign)

\* a / b, b nonzero
FDiv(a, b) ==
    IF a.m = 0 THEN FZero(a.sign * b.sign)
    ELSE RoundRatio(a.m, b.m, a.e - b.e, a.sign * b.sign)

\* a == b (Python: 0.0 == -0.0)
FEq(a, b) == (a.m = 0 /\ b.m = 0) \/ a = b

\* a <= b
FLeq(a, b) ==
    LET magLeq(x, y) == x.m = 0 \/ (y.m # 0 /\ (x.e < y.e \/ (x.e = y.e /\ x.m <= y.m)))
    IN  CASE a.m = 0 /\ b.m = 0 -> TRUE
          [] a.sign = -1 /\ b.sign = 1 -> TRUE
          [] a.sign = 1 /\ b.sign = -1 -> FALSE
          [] a.sign = 1 /\ b.sign = 1 -> magLeq(a, b)
          [] OTHER -> magLeq(b, a)

(***************************************************************************)
(* calculate_costs (src/main.py 70-111)                                    *)
(***************************************************************************)
\* The dict built at lines 103-109, under the keys the source uses.
Metrics(eu, tc, tpc, tt, ec) ==
    ("Engaged Users" :> eu) @@ ("Total Conversations" :> tc) @@
    ("Tokens per Conversation" :> tpc) @@ ("Total Tokens" :> tt) @@
    ("Estimated Cost (GBP)" :> ec)

\* Mutant: the rate clamped to [0, 1] before use.
engaged_users_clamped(total_visitors, params) ==
    LET r == params.engagement_rate
        c == IF r.m # 0 /\ r.sign = -1 THEN FZero(1)
             ELSE IF FLeq(r, FromInt(1)) THEN r ELSE FromInt(1)
    IN  FMul(total_visitors, c)

\* line 83
engaged_users(total_visitors, params) == FMul(total_visitors, params.engagement_rate)

\* line 84
total_conversations(eu, params) == FMul(eu, params.conversations_per_user)

\* line 86
tokens_per_turn(tokens_per_question, rag_tokens, tokens_per_answer) ==
    tokens_per_question + rag_tokens + tokens_per_answer

\* Mutant: every earlier turn is re-submitted, not only the preceding one.
turn_tokens_running_total(i, current_tokens, previous_tokens) ==
    IF i > 1 THEN current_tokens + (i - 1) * previous_tokens ELSE current_tokens

\* Mutant: no context is re-submitted (questions * tokens per turn).
turn_tokens_current_only(i, current_tokens, previous_tokens) == current_tokens

\* lines 93-96: what turn i adds to tokens_per_conversation
turn_tokens(i, current_tokens, previous_tokens) ==
    IF i > 1 THEN current_tokens + previous_tokens ELSE current_tokens

\* lines 91-97: the iterations i, i+1, .., n of the loop over range(1, n + 1)
RECURSIVE turn_loop(_, _, _, _, _)
turn_loop(i, n, per_turn, acc, previous_tokens) ==
    IF i > n THEN acc
    ELSE LET current_tokens == per_turn
         IN  turn_loop(i + 1, n, per_turn,
                       acc + turn_tokens(i, current_tokens, previous_tokens),
                       current_tokens)

\* Mutant: the first turn is counted before the loop, which starts at turn 2.
tokens_per_conversation_first_hoisted(n, per_turn) == turn_loop(2, n, per_turn, per_turn, per_turn)

\* lines 87-97
tokens_per_conversation(n, per_turn) == turn_loop(1, n, per_turn, 0, 0)

\* line 99: float * int
total_tokens(tc, tpc) == FMul(tc, FromInt(tpc))

\* Mutant: a hard-coded rate instead of the cost_per_token passed in.
estimated_cost_fixed_rate(tt, cost_per_token) == FMul(tt, Lit(1, 2))

\* line 100
estimated_cost(tt, cost_per_token) == FMul(tt, cost_per_token)

\* Mutant: the token count is added to the cached one instead of replacing it.
store_metrics_accumulate(session, metrics) ==
    LET m2 == IF session = <<>> THEN metrics
              ELSE [metrics EXCEPT !["Tokens per Conversation"] = @ + session[1]["Tokens per Conversation"]]
    IN  [session |-> <<m2>>, ret |-> m2]

\* Mutant: the key is only set while the cache is empty.
store_metrics_keep_first(session, metrics) ==
    [session |-> IF session = <<>> THEN <<metrics>> ELSE session, ret |-> metrics]

\* lines 102-111: the result replaces st.session_state['calculated_metrics']
\* and the stored object is what is returned.
store_metrics(session, metrics) == [session |-> <<metrics>>, ret |-> metrics]

\* line 22: the empty dict the session key is first bound to
EmptyDict == <<>>

\* Mutant: the cached dict is updated in place instead of replaced.
store_object_in_place(objs, metrics) == [objs EXCEPT ![Len(objs)] = metrics]

\* lines 103-111 on the objects: the dict display creates a new object, the
\* session key is bound to it and that object is returned; the objects bound
\* before are left as they are.
store_object(objs, metrics) == Append(objs, metrics)

\* The whole function: session is st.session_state['calculated_metrics'] at
\* the call (<<>> for the empty dict of line 22, else <<the stored dict>>).
calculate_costs(session, params, cost_per_token, total_visitors, tokens_per_question, rag_tokens, tokens_per_answer) ==
    LET eu  == engaged_users(total_visitors, params)
        tc  == total_conversations(eu, params)
        tpt == tokens_per_turn(tokens_per_question, rag_tokens, tokens_per_answer)
        tpc == tokens_per_conversation(params.avg_questions_per_convo, tpt)
        tt  == total_tokens(tc, tpc)
        ec  == estimated_cost(tt, cost_per_token)
    IN  store_metrics(session, Metrics(eu, tc, tpc, tt, ec))

\* Mutant: the population divided by the rate.
monthly_unique_visitors_divided(council_population, conversion_rate) ==
    FDiv(FromInt(council_population), conversion_rate)

\* line 174 of get_sidebar_inputs: int * float
monthly_unique_visitors(council_population, conversion_rate) ==
    FMul(FromInt(council_population), conversion_rate)

(***************************************************************************)
(* Formatting: f"{x:.<d>f}" (lines 278-284).  The text is modelled by its  *)
(* sign, integer part and d fraction digits; the thousands separators and  *)
(* the "£" and "%" around it are fixed by the column and left out.         *)
(* CPython rounds the exact binary value, ties to even.                    *)
(***************************************************************************)
\* d fraction digits of r / 2^k (r < 2^k), and what is left: each digit is
\* floor(10 * r / 2^k) = floor(5 * r / 2^(k-1)), which is 0 while 2^(k-1)
\* is beyond the integers 5 * r is computed in.
RECURSIVE FracDigits(_, _, _)
FracDigits(r, k, d) ==
    IF d = 0 THEN [digits |-> <<>>, r |-> r, k |-> k]
    ELSE IF k = 0 THEN LET rest == FracDigits(0, 0, d - 1)
                       IN  [rest EXCEPT !.digits = <<0>> \o @]
    ELSE IF k > 31 THEN LET rest == FracDigits(5 * r, k - 1, d - 1)
                        IN  [rest EXCEPT !.digits = <<0>> \o @]
    ELSE LET unit == 2^(k - 1)
             rest == FracDigits((5 * r) % unit, k - 1, d - 1)
         IN  [rest EXCEPT !.digits = <<(5 * r) \div unit>> \o @]

\* The digits plus one unit in the last place; carry is 1 when they overflow.
RECURSIVE IncDigits(_)
IncDigits(ds) ==
    IF ds = <<>> THEN [digits |-> <<>>, carry |-> 1]
    ELSE LET n == Len(ds) IN
         IF ds[n] < 9 THEN [digits |-> [ds EXCEPT ![n] = @ + 1], carry |-> 0]
         ELSE LET front == IncDigits(SubSeq(ds, 1, n - 1))
              IN  [digits |-> front.digits \o <<0>>, carry |-> front.carry]

Fmt(x, d) ==
    IF x.e >= 0
    THEN [neg |-> x.sign = -1, int |-> x.m * 2^x.e, frac |-> [j \in 1 .. d |-> 0]]
    ELSE LET k       == -x.e
             whole   == IF k >= Precision THEN 0 ELSE x.m \div 2^k
             r0      == IF k >= Precision THEN x.m ELSE x.m % 2^k
             fd      == FracDigits(r0, k, d)
             lastOdd == IF d = 0 THEN whole % 2 = 1 ELSE fd.digits[d] % 2 = 1
             half    == IF fd.k = 0 \/ fd.k > 31 THEN 1 ELSE 2^(fd.k - 1)
             up      == fd.k > 0 /\ fd.k <= 31 /\ (fd.r > half \/ (fd.r = half /\ lastOdd))
             inc     == IncDigits(fd.digits)
         IN  IF up THEN [neg |-> x.sign = -1, int |-> whole + inc.carry, frac |-> inc.digits]
             ELSE [neg |-> x.sign = -1, int |-> whole, frac |-> fd.digits]

(***************************************************************************)
(* generate_scenarios (src/main.py 245-286) and its inputs                 *)
(***************************************************************************)
\* lines 36-57
SCENARIOS ==
    [ Low    |-> [engagement_rate |-> Lit(2, 2), conversations_per_user |-> Lit(10, 1), avg_questions_per_convo |-> 2],
      Medium |-> [engagement_rate |-> Lit(3, 2), conversations_per_user |-> Lit(22, 1), avg_questions_per_convo |-> 4],
      Heavy  |-> [engagement_rate |-> Lit(6, 2), conversations_per_user |-> Lit(46, 1), avg_questions_per_convo |-> 8],
      Custom |-> [engagement_rate |-> Lit(5, 2), conversations_per_user |-> Lit(21, 1), avg_questions_per_convo |-> 4] ]

\* The order in which SCENARIOS.items() yields the entries (insertion order).
ScenarioOrder == <<"Low", "Medium", "Heavy", "Custom">>

\* lines 25-34
MODEL_COSTS ==
    [ gpt4o     |-> [input_token |-> Lit(1866, 9), output_token |-> Lit(7463801, 12)],
      gpt4omini |-> [input_token |-> Lit(11196, 11), output_token |-> Lit(4479, 10)] ]

\* The values get_sidebar_inputs returns for the widget values w (lines 230-243);
\* the two rates are entered in percent and divided by 100 (lines 161-171, 178-188).
get_sidebar_inputs(w) ==
    LET conversion_rate == FDiv(w.conversion_rate, FromInt(100)) IN
    [ custom_cost_per_token        |-> w.custom_cost_per_token,
      custom_cost_per_output_token |-> w.custom_cost_per_output_token,
      council_population           |-> w.council_population,
      conversion_rate              |-> conversion_rate,
      monthly_unique_visitors      |-> monthly_unique_visitors(w.council_population, conversion_rate),
      engagement_rate              |-> FDiv(w.engagement_rate, FromInt(100)),
      conversations_per_user       |-> w.conversations_per_user,
      avg_questions_per_convo      |-> w.avg_questions_per_convo,
      tokens_per_question          |-> w.tokens_per_question,
      rag_tokens                   |-> w.rag_tokens,
      tokens_per_answer            |-> w.tokens_per_answer ]

\* lines 258-262 and 409-413: the Custom parameters taken from the inputs
custom_params(inputs) ==
    [ engagement_rate         |-> inputs.engagement_rate,
      conversations_per_user  |-> inputs.conversations_per_user,
      avg_questions_per_convo |-> inputs.avg_questions_per_convo ]

\* Mutant: the override is applied to every scenario.
current_params_always_custom(scenario_name, params, inputs) == custom_params(inputs)

\* Mutant: the override is missing.
current_params_stored(scenario_name, params, inputs) == params

\* lines 256-265
current_params(scenario_name, params, inputs) ==
    IF scenario_name = "Custom" THEN custom_params(inputs) ELSE params

\* lines 276-285: the row of one scenario
ScenarioRow(scenario_name, params, estimated, cost) ==
    ("Scenario" :> scenario_name) @@
    ("Engagement Rate (%)" :> Fmt(FMul(params.engagement_rate, FromInt(100)), 1)) @@
    ("Engaged Users" :> Fmt(estimated["Engaged Users"], 0)) @@
    ("Conversations per User" :> Fmt(params.conversations_per_user, 1)) @@
    ("Qs per Conversation" :> Fmt(FromInt(params.avg_questions_per_convo), 0)) @@
    ("Cost per Token (GBP)" :> Fmt(cost, 10)) @@
    ("Est Monthly Cost (GBP)" :> Fmt(estimated["Estimated Cost (GBP)"], 2)) @@
    ("Est Annual Cost (GBP)" :> Fmt(FMul(estimated["Estimated Cost (GBP)"], FromInt(12)), 2))

\* Mutant: the tokens are priced at the output-token rate.
scenario_step_output_rate(session, scenario_name, inputs) ==
    LET chosen == current_params(scenario_name, SCENARIOS[scenario_name], inputs)
        r      == calculate_costs(session, chosen, inputs.custom_cost_per_output_token, inputs.monthly_unique_visitors, inputs.tokens_per_question, inputs.rag_tokens, inputs.tokens_per_answer)
    IN  [session |-> r.session,
         row     |-> ScenarioRow(scenario_name, chosen, r.ret, inputs.custom_cost_per_token)]

\* lines 255-285: one iteration of the loop, for the scenario scenario_name,
\* with the session as it is; the new session and the row appended.
scenario_step(session, scenario_name, inputs) ==
    LET chosen == current_params(scenario_name, SCENARIOS[scenario_name], inputs)
        r      == calculate_costs(session, chosen, inputs.custom_cost_per_token, inputs.monthly_unique_visitors, inputs.tokens_per_question, inputs.rag_tokens, inputs.tokens_per_answer)
    IN  [session |-> r.session,
         row     |-> ScenarioRow(scenario_name, chosen, r.ret, inputs.custom_cost_per_token)]

(***************************************************************************)
(* State                                                                   *)
(***************************************************************************)
VARIABLES
    calculated_metrics, \* st.session_state['calculated_metrics']: <<>> or <<dict>> (lines 20-22)
    widgets,            \* the values the sidebar widgets hold (lines 133-228)
    pc,                 \* where the current run of main() is: "generate", "detail", "done"
    data,               \* generate_scenarios: the rows appended so far (line 254)
    detailed_estimated, \* main: <<>> or <<the dict of line 415>>
    prev_run,           \* <<>> or <<the widgets and rows of the previous run>>
    calls,              \* direct calls of calculate_costs so far: [args, ret]
    session_before,     \* calculated_metrics as it was when the last direct call began
    objects,            \* the dict objects bound to the session key so far, the current one last (lines 22, 103)
    estimates,          \* generate_scenarios: per iteration, the object calculate_costs returned (line 267)
    scenarios,          \* the module-level dict SCENARIOS as it is now (lines 36-57)
    order               \* the order in which SCENARIOS.items() yields the entries (line 255)

appVars == <<widgets, pc, data, detailed_estimated, prev_run>>

objVars == <<objects, estimates, scenarios, order>>

vars == <<calculated_metrics, widgets, pc, data, detailed_estimated, prev_run, calls, session_before, objects, estimates, scenarios, order>>

(***************************************************************************)
(* The page: main() (src/main.py 393-424) is run once when the page is     *)
(* opened and again, from the top, each time the user changes a widget.    *)
(* A run is single-threaded and is modelled to its end.                    *)
(***************************************************************************)
\* The values the widgets start with (value= of each number_input; the
\* selectbox starts at index 1, "gpt-4o-mini").
WidgetDefault ==
    [ custom_cost_per_token        |-> MODEL_COSTS.gpt4omini.input_token,
      custom_cost_per_output_token |-> MODEL_COSTS.gpt4omini.output_token,
      council_population           |-> 220000,
      conversion_rate              |-> FMul(RoundRatio(126253, 220000, 0, 1), FromInt(100)),
      engagement_rate              |-> Lit(30, 1),
      conversations_per_user       |-> Lit(12, 1),
      avg_questions_per_convo      |-> 4,
      tokens_per_question          |-> 100,
      rag_tokens                   |-> 2000,
      tokens_per_answer            |-> 300 ]

\* The values the user may give each widget, all within its min_value and
\* max_value: the default and one other.
WidgetChoices ==
    [ custom_cost_per_token        |-> {WidgetDefault.custom_cost_per_token, Lit(1, 2)},
      custom_cost_per_output_token |-> {WidgetDefault.custom_cost_per_output_token, Lit(1, 2)},
      council_population           |-> {220000, 221000},
      conversion_rate              |-> {WidgetDefault.conversion_rate, Lit(500, 1)},
      engagement_rate              |-> {Lit(30, 1), FZero(1)},
      conversations_per_user       |-> {Lit(12, 1), Lit(25, 1)},
      avg_questions_per_convo      |-> {4, 1},
      tokens_per_question          |-> {100, 150},
      rag_tokens                   |-> {2000, 1000},
      tokens_per_answer            |-> {300, 200} ]

\* main, lines 398-402: the inputs of the current run
user_inputs == get_sidebar_inputs(widgets)

Init ==
    /\ calculated_metrics = <<>>
    /\ widgets = WidgetDefault
    /\ pc = "generate"
    /\ data = <<>>
    /\ detailed_estimated = <<>>
    /\ prev_run = <<>>
    /\ calls = <<>>
    /\ session_before = <<>>
    /\ objects = <<EmptyDict>>
    /\ estimates = <<>>
    /\ scenarios = SCENARIOS
    /\ order = ScenarioOrder

\* generate_scenarios, lines 255-285: the next iteration of the loop; after
\* the last one the table is returned and displayed (lines 286, 405-406).
generate_scenarios ==
    /\ pc = "generate"
    /\ \E st \in {scenario_step(calculated_metrics, ScenarioOrder[Len(data) + 1], user_inputs)} :
          /\ calculated_metrics' = st.session
          /\ data' = Append(data, st.row)
    /\ pc' = IF Len(data) + 1 = Len(ScenarioOrder) THEN "detail" ELSE "generate"
    /\ UNCHANGED <<widgets, detailed_estimated, prev_run, calls, session_before>>
    /\ UNCHANGED objVars

\* main, lines 408-424: the Custom detail
main_detail ==
    /\ pc = "detail"
    /\ \E r \in {calculate_costs(calculated_metrics, custom_params(user_inputs), user_inputs.custom_cost_per_token, user_inputs.monthly_unique_visitors, user_inputs.tokens_per_question, user_inputs.rag_tokens, user_inputs.tokens_per_answer)} :
          /\ calculated_metrics' = r.session
          /\ detailed_estimated' = <<r.ret>>
    /\ pc' = "done"
    /\ UNCHANGED <<widgets, data, prev_run, calls, session_before>>
    /\ UNCHANGED objVars

\* The user changes one widget and the script is run again; the session
\* state is kept, the locals of main are new.
rerun ==
    /\ pc = "done"
    /\ \E w \in DOMAIN WidgetChoices : \E v \in WidgetChoices[w] \ {widgets[w]} :
          widgets' = [widgets EXCEPT ![w] = v]
    /\ prev_run' = <<[widgets |-> widgets, data |-> data, detailed_estimated |-> detailed_estimated[1]]>>
    /\ pc' = "generate"
    /\ data' = <<>>
    /\ detailed_estimated' = <<>>
    /\ UNCHANGED <<calculated_metrics, calls, session_before>>
    /\ UNCHANGED objVars

Next == generate_scenarios \/ main_detail \/ rerun

Spec == Init /\ [][Next]_vars

(***************************************************************************)
(* Direct calls of calculate_costs: a call, a second call with the same    *)
(* arguments or with one of them changed, and the first call repeated.     *)
(* The arguments are drawn from ArgValues, which holds in-range and        *)
(* out-of-range values; total_visitors is population * conversion_rate,    *)
(* as get_sidebar_inputs computes it.                                      *)
(***************************************************************************)
BaseCost == Lit(1, 2)

ArgValues ==
    [ population             |-> {3, 7},
      conversion_rate        |-> {Lit(5, 1), Lit(1, 0)},
      engagement_rate        |-> {Lit(-5, 1), FZero(1), Lit(3, 2), Lit(15, 1)},
      conversations_per_user |-> {FZero(1), Lit(1, 0), Lit(22, 1)},
      avg_questions_per_convo|-> 0 .. MaxQuestions,
      tokens_per_question    |-> {100, 150},
      rag_tokens             |-> {1000, 2000},
      tokens_per_answer      |-> {200, 300},
      cost_per_token         |-> {BaseCost, FMul(FromInt(2), BaseCost), FMul(FromInt(3), BaseCost)} ]

ArgNames == DOMAIN ArgValues

ArgSpace ==
    [ population : ArgValues.population,
      conversion_rate : ArgValues.conversion_rate,
      engagement_rate : ArgValues.engagement_rate,
      conversations_per_user : ArgValues.conversations_per_user,
      avg_questions_per_convo : ArgValues.avg_questions_per_convo,
      tokens_per_question : ArgValues.tokens_per_question,
      rag_tokens : ArgValues.rag_tokens,
      tokens_per_answer : ArgValues.tokens_per_answer,
      cost_per_token : ArgValues.cost_per_token ]

\* The params dict a caller builds (lines 258-262, 409-413).
ParamsOf(a) ==
    [ engagement_rate |-> a.engagement_rate,
      conversations_per_user |-> a.conversations_per_user,
      avg_questions_per_convo |-> a.avg_questions_per_convo ]

VisitorsOf(a) == monthly_unique_visitors(a.population, a.conversion_rate)

\* One call of calculate_costs with the arguments a.
DoCall(a) ==
    \E r \in {calculate_costs(calculated_metrics, ParamsOf(a), a.cost_per_token, VisitorsOf(a), a.tokens_per_question, a.rag_tokens, a.tokens_per_answer)} :
        /\ calculated_metrics' = r.session
        /\ session_before' = calculated_metrics
        /\ calls' = Append(calls, [args |-> a, ret |-> r.ret])
        /\ UNCHANGED appVars
        /\ UNCHANGED objVars

InitCalc == Init

CallFirst ==
    /\ calls = <<>>
    /\ \E a \in ArgSpace : DoCall(a)

\* The second call: the same arguments, or one of them changed.
CallAgain ==
    /\ Len(calls) = 1
    /\ \E f \in ArgNames : \E v \in ArgValues[f] :
          DoCall([calls[1].args EXCEPT ![f] = v])

\* The third call: the arguments of the first.
CallRepeat ==
    /\ Len(calls) = 2
    /\ DoCall(calls[1].args)

NextCalc == CallFirst \/ CallAgain \/ CallRepeat

SpecCalc == InitCalc /\ [][NextCalc]_vars

(***************************************************************************)
(* generate_scenarios on the objects, with the entries of SCENARIOS taken   *)
(* in any order: each call of calculate_costs binds the session key to a   *)
(* new dict and returns it, the loop keeps the object in estimated while   *)
(* it formats the row.  The table is built once, and a second time in      *)
(* another order with the session and the objects as the first pass left   *)
(* them.                                                                   *)
(***************************************************************************)
\* The orders in which the entries of SCENARIOS can be taken.
OrderChoices ==
    {o \in [1 .. Len(ScenarioOrder) -> DOMAIN SCENARIOS] : \A i, j \in DOMAIN o : o[i] = o[j] => i = j}

\* The widget values of the runs: the defaults, and other Custom parameters.
OrderWidgets ==
    {[WidgetDefault EXCEPT !.engagement_rate = er, !.conversations_per_user = c, !.avg_questions_per_convo = n] :
        er \in WidgetChoices.engagement_rate, c \in WidgetChoices.conversations_per_user, n \in WidgetChoices.avg_questions_per_convo}

InitOrder ==
    /\ calculated_metrics = <<>>
    /\ widgets \in OrderWidgets
    /\ pc = "generate"
    /\ data = <<>>
    /\ detailed_estimated = <<>>
    /\ prev_run = <<>>
    /\ calls = <<>>
    /\ session_before = <<>>
    /\ objects = <<EmptyDict>>
    /\ estimates = <<>>
    /\ scenarios = SCENARIOS
    /\ order \in OrderChoices

\* lines 255-285: one iteration of the loop, for the next entry in order.
\* params is the entry of SCENARIOS itself (line 265) and is only read.
process_scenario ==
    /\ pc = "generate"
    /\ LET scenario_name == order[Len(data) + 1]
           chosen        == current_params(scenario_name, scenarios[scenario_name], user_inputs)
       IN  \E r \in {calculate_costs(calculated_metrics, chosen, user_inputs.custom_cost_per_token, user_inputs.monthly_unique_visitors, user_inputs.tokens_per_question, user_inputs.rag_tokens, user_inputs.tokens_per_answer)} :
           \E objs \in {store_object(objects, r.ret)} :
               /\ calculated_metrics' = r.session
               /\ objects' = objs
               /\ estimates' = Append(estimates, [scenario |-> scenario_name, ref |-> Len(objs), returned |-> objs[Len(objs)]])
               /\ data' = Append(data, ScenarioRow(scenario_name, chosen, objs[Len(objs)], user_inputs.custom_cost_per_token))
    /\ pc' = IF Len(data) + 1 = Len(order) THEN "detail" ELSE "generate"
    /\ UNCHANGED <<widgets, detailed_estimated, prev_run, calls, session_before, scenarios, order>>

\* The table is built again with the entries in another order; the session
\* and the objects stay, the locals of generate_scenarios are new.
reorder ==
    /\ pc = "detail" /\ prev_run = <<>>
    /\ \E o \in OrderChoices \ {order} : order' = o
    /\ prev_run' = <<[order |-> order, data |-> data]>>
    /\ pc' = "generate"
    /\ data' = <<>>
    /\ estimates' = <<>>
    /\ UNCHANGED <<calculated_metrics, widgets, detailed_estimated, calls, session_before, objects, scenarios>>

NextOrder == process_scenario \/ reorder

SpecOrder == InitOrder /\ [][NextOrder]_vars

(***************************************************************************)
(* Properties of generate_scenarios, checked under Spec                    *)
(***************************************************************************)
\* generate_scenarios has returned in the current run.
TableBuilt == pc \in {"detail", "done"}

\* The widget values w1 and w2 differ at most in the three Custom parameters.
OnlyCustomDiffers(w1, w2) ==
    [w1 EXCEPT !.engagement_rate = w2.engagement_rate,
               !.conversations_per_user = w2.conversations_per_user,
               !.avg_questions_per_convo = w2.avg_questions_per_convo] = w2

\* What calculate_costs returns for the parameters p and the inputs of the run.
EstimateOf(p, inputs) ==
    calculate_costs(<<>>, p, inputs.custom_cost_per_token, inputs.monthly_unique_visitors, inputs.tokens_per_question, inputs.rag_tokens, inputs.tokens_per_answer).ret

\* The row of scenario_name when it is estimated from the parameters p.
RowFrom(scenario_name, p, inputs) ==
    ScenarioRow(scenario_name, p, EstimateOf(p, inputs), inputs.custom_cost_per_token)

\* C5: two runs of generate_scenarios that differ only in the Custom
\* parameters compute the same Low, Medium and Heavy rows.
C5_ScenarioIsolation ==
    (prev_run # <<>> /\ OnlyCustomDiffers(prev_run[1].widgets, widgets)) =>
        \A i \in DOMAIN data :
            data[i]["Scenario"] # "Custom" => data[i] = prev_run[1].data[i]

\* C5 witness: the table was rebuilt after a change of the Custom engagement
\* rate only; the Custom row changed and the Low, Medium and Heavy rows did not.
C5_Witness ==
    /\ TableBuilt /\ prev_run # <<>>
    /\ OnlyCustomDiffers(prev_run[1].widgets, widgets)
    /\ prev_run[1].widgets.engagement_rate # widgets.engagement_rate
    /\ data[4] # prev_run[1].data[4]
    /\ \A i \in 1 .. 3 : data[i] = prev_run[1].data[i]

ParamsAt(i) ==
    IF ScenarioOrder[i] = "Custom" THEN custom_params(user_inputs) ELSE SCENARIOS[ScenarioOrder[i]]

\* C11: at every point of a run of main, st.session_state['calculated_metrics']
\* holds the metrics the most recent call of calculate_costs returned: before
\* the first call of a run what the previous run left (the empty dict on the
\* first run), inside generate_scenarios the metrics the last row was built
\* from, when it returns those of Custom, and when main finishes the
\* detailed_estimated of the Custom detail, from which the Custom row follows.
C11_SessionHoldsLatest ==
    /\ (pc = "generate" /\ data = <<>>) =>
          calculated_metrics = IF prev_run = <<>> THEN <<>> ELSE <<prev_run[1].detailed_estimated>>
    /\ (pc # "done" /\ data # <<>>) =>
          LET i == Len(data) IN
          /\ calculated_metrics = <<EstimateOf(ParamsAt(i), user_inputs)>>
          /\ data[i] = ScenarioRow(ScenarioOrder[i], ParamsAt(i), calculated_metrics[1], user_inputs.custom_cost_per_token)
    /\ pc = "detail" => calculated_metrics = <<EstimateOf(custom_params(user_inputs), user_inputs)>>
    /\ pc = "done" =>
          /\ calculated_metrics = detailed_estimated
          /\ data[4] = ScenarioRow("Custom", custom_params(user_inputs), detailed_estimated[1], user_inputs.custom_cost_per_token)

\* C11 witness: a second run of main has finished; the session holds its
\* Custom detail, which is not what the previous run left there and not the
\* metrics of the Heavy row, and the Custom row is the row of those metrics.
C11_Witness ==
    /\ pc = "done" /\ prev_run # <<>>
    /\ calculated_metrics = detailed_estimated
    /\ calculated_metrics # <<prev_run[1].detailed_estimated>>
    /\ calculated_metrics # <<EstimateOf(SCENARIOS["Heavy"], user_inputs)>>
    /\ data[4] = ScenarioRow("Custom", custom_params(user_inputs), calculated_metrics[1], user_inputs.custom_cost_per_token)

\* The widget values w1 and w2 differ at most in 'Cost per Output Token'.
OnlyOutputCostDiffers(w1, w2) ==
    [w1 EXCEPT !.custom_cost_per_output_token = w2.custom_cost_per_output_token] = w2

\* C13: two runs of main that differ only in custom_cost_per_output_token
\* build the same rows and the same Custom detail metrics; the detail prices
\* every token, those of the answers included, at custom_cost_per_token.
C13_OutputCostIgnored ==
    /\ (prev_run # <<>> /\ OnlyOutputCostDiffers(prev_run[1].widgets, widgets)) =>
          /\ \A i \in DOMAIN data : data[i] = prev_run[1].data[i]
          /\ detailed_estimated # <<>> => detailed_estimated[1] = prev_run[1].detailed_estimated
    /\ detailed_estimated # <<>> =>
          LET r == detailed_estimated[1]
              n == user_inputs.avg_questions_per_convo
          IN  /\ r["Tokens per Conversation"]
                    = (user_inputs.tokens_per_question + user_inputs.rag_tokens + user_inputs.tokens_per_answer) * (2 * n - 1)
              /\ r["Estimated Cost (GBP)"] = FMul(r["Total Tokens"], user_inputs.custom_cost_per_token)

\* C13 witness: main has run again after a change of 'Cost per Output Token'
\* to another value and nothing else; the table and the Custom detail, with a
\* cost that is not zero, are those of the run before.
C13_Witness ==
    /\ pc = "done" /\ prev_run # <<>>
    /\ OnlyOutputCostDiffers(prev_run[1].widgets, widgets)
    /\ prev_run[1].widgets.custom_cost_per_output_token # widgets.custom_cost_per_output_token
    /\ data = prev_run[1].data
    /\ detailed_estimated = <<prev_run[1].detailed_estimated>>
    /\ detailed_estimated[1]["Estimated Cost (GBP)"].m # 0

(***************************************************************************)
(* Properties of the objects, checked under SpecOrder                      *)
(***************************************************************************)
\* The row of scenario_name in the rows built in the order ord.
RowOf(rows, ord, scenario_name) == rows[CHOOSE i \in DOMAIN ord : ord[i] = scenario_name]

\* C12: each result calculate_costs returns is the object the session holds
\* at that moment, and computing a later scenario changes neither an object
\* returned for an earlier one nor an entry of SCENARIOS; each row is the
\* same in whatever order the entries are processed.
C12_NoRowMutatesAnother ==
    /\ estimates # <<>> =>
          /\ estimates[Len(estimates)].ref = Len(objects)
          /\ calculated_metrics = <<objects[Len(objects)]>>
    /\ \A i \in DOMAIN estimates : objects[estimates[i].ref] = estimates[i].returned
    /\ scenarios = SCENARIOS
    /\ \A i \in DOMAIN data :
          /\ data[i] = RowFrom(order[i], IF order[i] = "Custom" THEN custom_params(user_inputs) ELSE SCENARIOS[order[i]], user_inputs)
          /\ prev_run # <<>> => data[i] = RowOf(prev_run[1].data, prev_run[1].order, order[i])

\* C12 witness: the table was built a second time with Low processed last
\* instead of first; the object returned for the first scenario of this pass
\* is no longer the session's and is as it was returned, and the Low row is
\* the one of the first pass.
C12_Witness ==
    /\ pc = "detail" /\ prev_run # <<>>
    /\ prev_run[1].order[1] = "Low" /\ order[4] = "Low"
    /\ estimates[1].ref < Len(objects)
    /\ objects[estimates[1].ref] = estimates[1].returned
    /\ objects[estimates[1].ref] # objects[Len(objects)]
    /\ data[4] = prev_run[1].data[1]
    /\ data[1] # prev_run[1].data[1]

(***************************************************************************)
(* Properties of calculate_costs, checked under SpecCalc                   *)
(***************************************************************************)
TokensPerTurnOf(a) == a.tokens_per_question + a.rag_tokens + a.tokens_per_answer

IsZero(x) == x.m = 0

IsNonNeg(x) == x.m = 0 \/ x.sign = 1

\* a < b
FLess(a, b) == FLeq(a, b) /\ ~FEq(a, b)

\* The value of b is exactly k times the value of a, as real numbers
\* (k in 1..3, so that the exponents differ by at most 2).
ExactTimes(k, a, b) ==
    IF a.m = 0 \/ b.m = 0 THEN a.m = 0 /\ b.m = 0
    ELSE /\ a.sign = b.sign
         /\ b.e - a.e \in 0 .. 2
         /\ b.m * 2^(b.e - a.e) = k * a.m

MetricKeys == {"Engaged Users", "Total Conversations", "Tokens per Conversation", "Total Tokens", "Estimated Cost (GBP)"}

NonNegArgs(a) ==
    /\ a.population >= 0 /\ IsNonNeg(a.conversion_rate)
    /\ IsNonNeg(a.engagement_rate) /\ IsNonNeg(a.conversations_per_user)
    /\ a.avg_questions_per_convo >= 0
    /\ a.tokens_per_question >= 0 /\ a.rag_tokens >= 0 /\ a.tokens_per_answer >= 0
    /\ IsNonNeg(a.cost_per_token)

\* a <= b in every argument
ArgsLeq(a, b) ==
    /\ a.population <= b.population /\ FLeq(a.conversion_rate, b.conversion_rate)
    /\ FLeq(a.engagement_rate, b.engagement_rate)
    /\ FLeq(a.conversations_per_user, b.conversations_per_user)
    /\ a.avg_questions_per_convo <= b.avg_questions_per_convo
    /\ a.tokens_per_question <= b.tokens_per_question /\ a.rag_tokens <= b.rag_tokens
    /\ a.tokens_per_answer <= b.tokens_per_answer
    /\ FLeq(a.cost_per_token, b.cost_per_token)

\* The two calls agree in every argument but cost_per_token.
SameButCost(a, b) == [a EXCEPT !.cost_per_token = b.cost_per_token] = b

\* The two results agree in every metric but the estimated cost.
SameButEstimate(r1, r2) == \A k \in MetricKeys \ {"Estimated Cost (GBP)"} : r1[k] = r2[k]

C2_ZeroPropagation ==
    \A i \in DOMAIN calls :
        LET a == calls[i].args
            r == calls[i].ret
        IN  /\ (IsZero(a.engagement_rate) \/ IsZero(a.conversations_per_user)
                    \/ a.avg_questions_per_convo = 0)
                => IsZero(r["Estimated Cost (GBP)"])
            /\ a.avg_questions_per_convo = 0
                => (r["Tokens per Conversation"] = 0 /\ DOMAIN r = MetricKeys)

\* C2 witness: a call with zero questions but engaged users and conversations
\* returned zero tokens and zero cost.
C2_Witness ==
    \E i \in DOMAIN calls :
        /\ calls[i].args.avg_questions_per_convo = 0
        /\ ~IsZero(calls[i].ret["Total Conversations"])
        /\ calls[i].ret["Tokens per Conversation"] = 0
        /\ IsZero(calls[i].ret["Estimated Cost (GBP)"])

\* C3: with non-negative inputs, raising one input and holding the others
\* never lowers the estimated cost.
C3_Monotone ==
    Len(calls) >= 2 =>
        LET a == calls[1].args
            b == calls[2].args
        IN  (NonNegArgs(a) /\ NonNegArgs(b) /\ ArgsLeq(a, b))
                => FLeq(calls[1].ret["Estimated Cost (GBP)"], calls[2].ret["Estimated Cost (GBP)"])

\* C3 witness: the second call differs from the first in a larger
\* conversion_rate only, and its estimated cost is strictly larger.
C3_Witness ==
    /\ Len(calls) >= 2
    /\ NonNegArgs(calls[1].args) /\ ArgsLeq(calls[1].args, calls[2].args)
    /\ FLess(calls[1].args.conversion_rate, calls[2].args.conversion_rate)
    /\ FLess(calls[1].ret["Estimated Cost (GBP)"], calls[2].ret["Estimated Cost (GBP)"])

\* C4 as claimed: with everything else fixed, cost_per_token = k * c gives
\* exactly k times the estimated cost for c, and the same other metrics.
C4_Original ==
    Len(calls) >= 2 =>
        \A k \in 2 .. 3 :
            (/\ SameButCost(calls[1].args, calls[2].args)
             /\ calls[2].args.cost_per_token = FMul(FromInt(k), calls[1].args.cost_per_token))
            => /\ ExactTimes(k, calls[1].ret["Estimated Cost (GBP)"], calls[2].ret["Estimated Cost (GBP)"])
               /\ SameButEstimate(calls[1].ret, calls[2].ret)

\* C4 as amended: doubling cost_per_token exactly doubles the estimated cost,
\* and whatever the change of cost_per_token every other metric is the same.
C4_Doubling ==
    Len(calls) >= 2 =>
        (SameButCost(calls[1].args, calls[2].args) =>
            /\ SameButEstimate(calls[1].ret, calls[2].ret)
            /\ calls[2].args.cost_per_token = FMul(FromInt(2), calls[1].args.cost_per_token)
                => ExactTimes(2, calls[1].ret["Estimated Cost (GBP)"], calls[2].ret["Estimated Cost (GBP)"]))

\* C4 witness: the rate was doubled between two calls with a nonzero cost.
C4_Witness ==
    /\ Len(calls) >= 2
    /\ SameButCost(calls[1].args, calls[2].args)
    /\ calls[2].args.cost_per_token = FMul(FromInt(2), calls[1].args.cost_per_token)
    /\ ~IsZero(calls[1].ret["Estimated Cost (GBP)"])
    /\ ExactTimes(2, calls[1].ret["Estimated Cost (GBP)"], calls[2].ret["Estimated Cost (GBP)"])

\* C7: a call of calculate_costs leaves st.session_state['calculated_metrics']
\* as it was.
C7_NoSideEffect == calls # <<>> => calculated_metrics = session_before

\* C8: two calls with identical arguments return identical results, whatever
\* the session held before each and whatever was called in between.
C8_Deterministic ==
    \A i, j \in DOMAIN calls :
        calls[i].args = calls[j].args => calls[i].ret = calls[j].ret

\* C8 witness: the first call was repeated after a call with other arguments,
\* so the session held another result than before the first call.
C8_Witness ==
    /\ Len(calls) = 3
    /\ calls[3].args = calls[1].args /\ calls[2].args # calls[1].args
    /\ session_before = <<calls[2].ret>> /\ calls[2].ret # calls[1].ret
    /\ calls[3].ret = calls[1].ret

\* C9: the returned metrics are the pipeline visitors * engagement_rate,
\* * conversations_per_user, * tokens per conversation, * cost_per_token,
\* applied to the inputs as given (nothing validated or clamped).
C9_Pipeline ==
    \A i \in DOMAIN calls :
        LET a == calls[i].args
            r == calls[i].ret
        IN  /\ r["Engaged Users"] = FMul(VisitorsOf(a), a.engagement_rate)
            /\ r["Total Conversations"] = FMul(r["Engaged Users"], a.conversations_per_user)
            /\ r["Total Tokens"] = FMul(r["Total Conversations"], FromInt(r["Tokens per Conversation"]))
            /\ r["Estimated Cost (GBP)"] = FMul(r["Total Tokens"], a.cost_per_token)

\* C9 witness: with an engagement_rate above 1 there are more engaged users
\* than visitors, and with a negative one a negative cost.
C9_Witness ==
    /\ \E i \in DOMAIN calls :
          /\ FLess(FromInt(1), calls[i].args.engagement_rate)
          /\ FLess(VisitorsOf(calls[i].args), calls[i].ret["Engaged Users"])
    /\ \E i \in DOMAIN calls :
          /\ ~IsNonNeg(calls[i].args.engagement_rate)
          /\ ~IsNonNeg(calls[i].ret["Estimated Cost (GBP)"])

====
